---- MODULE Spec2Model ----
(***************************************************************************)
(* Model of the Media Optimizer (src/MediaOptimizer.ts): path              *)
(* sanitization, option validation, the two provider adapters, the         *)
(* configuration singleton and the resolution entry points.                *)
(*                                                                         *)
(* A path is a sequence of characters, each character a one-element        *)
(* string token (the null byte is the token NUL).  A URL is a string.      *)
(* An optional field is a set with at most one element: {} when the key    *)
(* is absent, {v} when it is present with value v.                         *)
(* A number is a record [int, frac]: int + frac/10, frac in 0..9.          *)
(***************************************************************************)
EXTENDS Integers, Sequences, FiniteSets, TLC

VARIABLES
    globalConfig,     \* the stored configuration, or Null
    primaryProvider,  \* the ImageKit provider, or Null
    backupProvider,   \* the Supabase provider, or Null
    call,             \* the latest call: operation and arguments
    result,           \* what the latest call returned or threw
    providerInput,    \* the paths the latest call handed to the provider adapters
    sanitized,        \* the returns of sanitizePath applied to call.path, then to its own output
    console,          \* the arguments of the console.log calls made so far
    legacyConfig,     \* globalConfig of the legacy module AdaptiveMediaGateway.tsx
    held              \* the configuration record the caller holds, or NoRecord

vars ==
    <<globalConfig, primaryProvider, backupProvider, call, result, providerInput, sanitized,
      console, legacyConfig, held>>

store == <<globalConfig, primaryProvider, backupProvider>>

(***************************************************************************)
(* Bounds of the model                                                     *)
(***************************************************************************)
MaxFrags == 3

\* assignments the caller makes to one record it holds
MaxWrites == 1

MaxWidths == 2

(***************************************************************************)
(* Characters and strings                                                  *)
(***************************************************************************)
BS == "\\"

NUL == "\\0"

SP == " "

TAB == "\t"

LF == "\n"

Whitespace == {SP, TAB, LF}

Null == [null |-> TRUE]

NoResult == [status |-> "none"]

NoRecord == [status |-> "none"]

Some(v) == {v}

IsSet(f) == f # {}

Val(f) == CHOOSE v \in f : TRUE

RECURSIVE PathStr(_)
PathStr(p) ==
    IF p = <<>> THEN ""
    ELSE IF Len(p) = 1 THEN p[1]
    ELSE PathStr(SubSeq(p, 1, Len(p) \div 2)) \o PathStr(SubSeq(p, Len(p) \div 2 + 1, Len(p)))

Chars(n, c) == [i \in 1..n |-> c]

Contains(s, pat) ==
    \E i \in 1..(Len(s) - Len(pat) + 1) : \A j \in 1..Len(pat) : s[i + j - 1] = pat[j]

LowerChar(c) == IF c = "E" THEN "e" ELSE c

ContainsIgnoreCase(s, pat) ==
    \E i \in 1..(Len(s) - Len(pat) + 1) :
        \A j \in 1..Len(pat) : LowerChar(s[i + j - 1]) = LowerChar(pat[j])

ContainsAnyChar(s, cs) == \E i \in 1..Len(s) : s[i] \in cs

StartsWith(s, c) == Len(s) > 0 /\ s[1] = c

(***************************************************************************)
(* Numbers                                                                 *)
(***************************************************************************)
Num(i, f) == [int |-> i, frac |-> f]

Int0(i) == Num(i, 0)

IsInteger(n) == n.frac = 0

AtLeast(n, m) == n.int >= m

AtMost(n, m) == n.int < m \/ (n.int = m /\ n.frac = 0)

GreaterThan(n, m) == n.int > m \/ (n.int = m /\ n.frac > 0)

Truthy(n) == n.int # 0 \/ n.frac # 0

NumToString(n) ==
    IF n.frac = 0 THEN ToString(n.int)
    ELSE ToString(n.int) \o "." \o ToString(n.frac)

(***************************************************************************)
(* SECTION 2: constants and defaults                                       *)
(***************************************************************************)
DEFAULTS == [quality |-> Int0(80), fit |-> "cover", format |-> "auto", dpr |-> Int0(1)]

\* LIMITS with the width maximum off by one.
LIMITS_MaxWidthOffByOne ==
    [minWidth |-> 1, maxWidth |-> 4001, minHeight |-> 1, maxHeight |-> 4000,
     minQuality |-> 1, maxQuality |-> 100, minBlur |-> 1, maxBlur |-> 100,
     minDpr |-> 1, maxDpr |-> 3, maxPathLength |-> 500]

LIMITS == [minWidth |-> 1, maxWidth |-> 4000, minHeight |-> 1, maxHeight |-> 4000,
           minQuality |-> 1, maxQuality |-> 100, minBlur |-> 1, maxBlur |-> 100,
           minDpr |-> 1, maxDpr |-> 3, maxPathLength |-> 500]

RESPONSIVE_WIDTHS ==
    <<Int0(320), Int0(640), Int0(768), Int0(1024), Int0(1280), Int0(1536), Int0(1920)>>

(***************************************************************************)
(* SECTION 3: errors.  A function either returns or throws.                *)
(***************************************************************************)
Return(v) == [ok |-> TRUE, value |-> v]

Throw(e) == [ok |-> FALSE, error |-> e]

InvalidPathError(reason) == [name |-> "InvalidPathError", reason |-> reason]

NotConfiguredError == [name |-> "ConfigurationError", reason |-> "not configured"]

InvalidConfigurationError(fields) == [name |-> "ConfigurationError", reason |-> fields]

ValidationError(fields) == [name |-> "ValidationError", reason |-> fields]

(***************************************************************************)
(* SECTION 5: path sanitization                                            *)
(***************************************************************************)
\* DANGEROUS_PATTERNS with the i flag of the encoded patterns dropped.
DANGEROUS_PATTERNS_CaseSensitive(path) ==
    << Contains(path, <<".", ".">>),
       Contains(path, <<".", BS>>),
       Contains(path, <<"%", "2", "e", "%", "2", "e">>),
       Contains(path, <<"%", "2", "5", "2", "e">>),
       StartsWith(path, "/"),
       ContainsAnyChar(path, {NUL}),
       ContainsAnyChar(path, {"<", ">"}),
       ContainsAnyChar(path, {"<", ">", ":", "\"", "|", "?", "*"}) >>

\* The i-th element tells whether the i-th regular expression matches.
DANGEROUS_PATTERNS(path) ==
    << Contains(path, <<".", ".">>),
       Contains(path, <<".", BS>>),
       ContainsIgnoreCase(path, <<"%", "2", "e", "%", "2", "e">>),
       ContainsIgnoreCase(path, <<"%", "2", "5", "2", "e">>),
       StartsWith(path, "/"),
       ContainsAnyChar(path, {NUL}),
       ContainsAnyChar(path, {"<", ">"}),
       ContainsAnyChar(path, {"<", ">", ":", "\"", "|", "?", "*"}) >>

ReplaceBackslashes(s) == [i \in 1..Len(s) |-> IF s[i] = BS THEN "/" ELSE s[i]]

\* The length of the longest prefix of s made of characters of cs.
PrefixIn(s, cs) ==
    CHOOSE k \in 0..Len(s) :
        /\ \A j \in 1..k : s[j] \in cs
        /\ k = Len(s) \/ s[k + 1] \notin cs

\* The length of the longest suffix of s made of characters of cs.
SuffixIn(s, cs) ==
    CHOOSE k \in 0..Len(s) :
        /\ \A j \in (Len(s) - k + 1)..Len(s) : s[j] \in cs
        /\ k = Len(s) \/ s[Len(s) - k] \notin cs

\* replace(/\/+/g, '/'): of every run of slashes the first one stays
CollapseSlashes(s) ==
    LET marked == [i \in 1..Len(s) |->
                     [char |-> s[i], keep |-> ~(s[i] = "/" /\ i > 1 /\ s[i - 1] = "/")]]
        kept == SelectSeq(marked, LAMBDA m : m.keep)
    IN  [i \in 1..Len(kept) |-> kept[i].char]

\* replace(/^\/+/, '')
StripLeadingSlashes(s) == SubSeq(s, PrefixIn(s, {"/"}) + 1, Len(s))

TrimStart(s) == SubSeq(s, PrefixIn(s, Whitespace) + 1, Len(s))

TrimEnd(s) == SubSeq(s, 1, Len(s) - SuffixIn(s, Whitespace))

Trim(s) == TrimEnd(TrimStart(s))

Normalize(path) ==
    Trim(StripLeadingSlashes(CollapseSlashes(ReplaceBackslashes(path))))

sanitizePath(path) ==
    IF path = <<>> THEN Throw(InvalidPathError("Path must be a non-empty string"))
    ELSE IF Len(path) > LIMITS.maxPathLength
    THEN Throw(InvalidPathError("Path exceeds maximum length"))
    ELSE IF LET matches == DANGEROUS_PATTERNS(path)
            IN  \E k \in 1..Len(matches) : matches[k]
    THEN Throw(InvalidPathError("Path contains forbidden characters or patterns"))
    ELSE LET cleanPath == Normalize(path)
         IN  IF cleanPath = <<>>
             THEN Throw(InvalidPathError("Path is empty after sanitization"))
             ELSE Return(cleanPath)

(***************************************************************************)
(* SECTION 4: validation schemas.  An issue names the field and the check  *)
(* that failed; a schema collects the issues of all its fields.            *)
(***************************************************************************)
Issue(field, code) == [path |-> field, code |-> code]

When(cond, issue) == IF cond THEN <<issue>> ELSE <<>>

\* z.number().int().min(lo).max(hi).optional()
IntRangeIssues(field, f, lo, hi) ==
    IF ~IsSet(f) THEN <<>>
    ELSE When(~IsInteger(Val(f)), Issue(field, "not_integer"))
         \o When(~AtLeast(Val(f), lo), Issue(field, "too_small"))
         \o When(~AtMost(Val(f), hi), Issue(field, "too_big"))

\* z.number().min(lo).max(hi).optional()
RangeIssues(field, f, lo, hi) ==
    IF ~IsSet(f) THEN <<>>
    ELSE When(~AtLeast(Val(f), lo), Issue(field, "too_small"))
         \o When(~AtMost(Val(f), hi), Issue(field, "too_big"))

\* z.enum(values).optional()
EnumIssues(field, f, values) ==
    When(IsSet(f) /\ Val(f) \notin values, Issue(field, "invalid_enum_value"))

FormatValues == {"auto", "webp", "avif", "jpg", "png"}

FitValues == {"cover", "contain", "fill"}

FocalValues == {"auto", "face", "center", "top", "bottom", "left", "right"}

\* TransformOptionsSchema that stops at the first issue it finds.
TransformOptionsSchema_FirstIssueOnly(options) ==
    LET all == IntRangeIssues("width", options.width, LIMITS.minWidth, LIMITS.maxWidth)
               \o IntRangeIssues("height", options.height, LIMITS.minHeight, LIMITS.maxHeight)
               \o IntRangeIssues("quality", options.quality, LIMITS.minQuality, LIMITS.maxQuality)
               \o EnumIssues("format", options.format, FormatValues)
               \o EnumIssues("fit", options.fit, FitValues)
               \o EnumIssues("focal", options.focal, FocalValues)
               \o RangeIssues("dpr", options.dpr, LIMITS.minDpr, LIMITS.maxDpr)
               \o IntRangeIssues("blur", options.blur, LIMITS.minBlur, LIMITS.maxBlur)
    IN  IF all = <<>> THEN <<>> ELSE <<all[1]>>

\* TransformOptionsSchema whose format field accepts any string.
TransformOptionsSchema_AnyFormat(options) ==
    IntRangeIssues("width", options.width, LIMITS.minWidth, LIMITS.maxWidth)
    \o IntRangeIssues("height", options.height, LIMITS.minHeight, LIMITS.maxHeight)
    \o IntRangeIssues("quality", options.quality, LIMITS.minQuality, LIMITS.maxQuality)
    \o EnumIssues("fit", options.fit, FitValues)
    \o EnumIssues("focal", options.focal, FocalValues)
    \o RangeIssues("dpr", options.dpr, LIMITS.minDpr, LIMITS.maxDpr)
    \o IntRangeIssues("blur", options.blur, LIMITS.minBlur, LIMITS.maxBlur)

TransformOptionsSchema(options) ==
    IntRangeIssues("width", options.width, LIMITS.minWidth, LIMITS.maxWidth)
    \o IntRangeIssues("height", options.height, LIMITS.minHeight, LIMITS.maxHeight)
    \o IntRangeIssues("quality", options.quality, LIMITS.minQuality, LIMITS.maxQuality)
    \o EnumIssues("format", options.format, FormatValues)
    \o EnumIssues("fit", options.fit, FitValues)
    \o EnumIssues("focal", options.focal, FocalValues)
    \o RangeIssues("dpr", options.dpr, LIMITS.minDpr, LIMITS.maxDpr)
    \o IntRangeIssues("blur", options.blur, LIMITS.minBlur, LIMITS.maxBlur)

\* A URL string is kept as its scheme and its host; UrlStr is the string.
Url(scheme, host) == [scheme |-> scheme, host |-> host]

UrlStr(u) == IF u.scheme = "" THEN u.host ELSE u.scheme \o "://" \o u.host

\* z.string().url(): the string must parse as an absolute URL.
ParsesAsUrl(u) == u.scheme # "" /\ u.host # ""

ConfigSchema(config) ==
    When(config.imageKitId = "", Issue("imageKitId", "too_small"))
    \o When(~ParsesAsUrl(config.supabaseUrl), Issue("supabaseUrl", "invalid_string"))
    \o When(config.bucketName = "", Issue("bucketName", "too_small"))

ConfigData(config) ==
    [imageKitId |-> config.imageKitId,
     supabaseUrl |-> config.supabaseUrl,
     bucketName |-> config.bucketName,
     forceBackupMode |-> IF IsSet(config.forceBackupMode) THEN Val(config.forceBackupMode) ELSE FALSE,
     debug |-> IF IsSet(config.debug) THEN Val(config.debug) ELSE FALSE]

\* The arguments of the console.log call of configureMedia.
DebugLine(cfg) ==
    [message |-> "[MediaOptimizer] Configured with:",
     imageKitId |-> cfg.imageKitId,
     supabaseUrl |-> UrlStr(cfg.supabaseUrl),
     bucketName |-> cfg.bucketName,
     forceBackupMode |-> cfg.forceBackupMode]

(***************************************************************************)
(* SECTION 6: provider implementations                                     *)
(***************************************************************************)
RECURSIVE Join(_, _)
Join(parts, sep) ==
    IF parts = <<>> THEN ""
    ELSE IF Len(parts) = 1 THEN parts[1]
    ELSE parts[1] \o sep \o Join(Tail(parts), sep)

NoOptions ==
    [width |-> {}, height |-> {}, quality |-> {}, format |-> {}, fit |-> {},
     focal |-> {}, dpr |-> {}, blur |-> {}, sharpen |-> {}]

OptionFields == DOMAIN NoOptions

\* if (options.<number>) : present and not zero
NumberSet(f) == IsSet(f) /\ Truthy(Val(f))

FitCode(fit) ==
    IF fit = Some("cover") THEN <<"c-maintain_ratio">>
    ELSE IF fit = Some("contain") THEN <<"c-at_max">>
    ELSE IF fit = Some("fill") THEN <<"c-force">>
    ELSE <<>>

focalMap ==
    [auto |-> "fo-auto", face |-> "fo-face", center |-> "fo-center", top |-> "fo-top",
     bottom |-> "fo-bottom", left |-> "fo-left", right |-> "fo-right"]

\* ImageKitTransforms with the format directive pushed before the focal one.
ImageKitTransforms_FormatBeforeFocal(options) ==
    (IF NumberSet(options.width) THEN <<"w-" \o NumToString(Val(options.width))>> ELSE <<>>)
    \o (IF NumberSet(options.height) THEN <<"h-" \o NumToString(Val(options.height))>> ELSE <<>>)
    \o (IF NumberSet(options.quality) THEN <<"q-" \o NumToString(Val(options.quality))>> ELSE <<>>)
    \o FitCode(options.fit)
    \o (IF IsSet(options.format) /\ Val(options.format) # "auto"
        THEN <<"f-" \o Val(options.format)>> ELSE <<>>)
    \o (IF IsSet(options.focal) THEN <<focalMap[Val(options.focal)]>> ELSE <<>>)
    \o (IF NumberSet(options.dpr) /\ GreaterThan(Val(options.dpr), 1)
        THEN <<"dpr-" \o NumToString(Val(options.dpr))>> ELSE <<>>)
    \o (IF NumberSet(options.blur) THEN <<"bl-" \o NumToString(Val(options.blur))>> ELSE <<>>)
    \o (IF options.sharpen = Some(TRUE) THEN <<"e-sharpen">> ELSE <<>>)

ImageKitTransforms(options) ==
    (IF NumberSet(options.width) THEN <<"w-" \o NumToString(Val(options.width))>> ELSE <<>>)
    \o (IF NumberSet(options.height) THEN <<"h-" \o NumToString(Val(options.height))>> ELSE <<>>)
    \o (IF NumberSet(options.quality) THEN <<"q-" \o NumToString(Val(options.quality))>> ELSE <<>>)
    \o FitCode(options.fit)
    \o (IF IsSet(options.focal) THEN <<focalMap[Val(options.focal)]>> ELSE <<>>)
    \o (IF IsSet(options.format) /\ Val(options.format) # "auto"
        THEN <<"f-" \o Val(options.format)>> ELSE <<>>)
    \o (IF NumberSet(options.dpr) /\ GreaterThan(Val(options.dpr), 1)
        THEN <<"dpr-" \o NumToString(Val(options.dpr))>> ELSE <<>>)
    \o (IF NumberSet(options.blur) THEN <<"bl-" \o NumToString(Val(options.blur))>> ELSE <<>>)
    \o (IF options.sharpen = Some(TRUE) THEN <<"e-sharpen">> ELSE <<>>)

NewImageKitProvider(imageKitId) == [name |-> "imagekit", imageKitId |-> imageKitId]

ImageKitGenerateUrl(self, path, options) ==
    LET transforms == ImageKitTransforms(options)
        transformString == IF Len(transforms) > 0 THEN "tr:" \o Join(transforms, ",") ELSE ""
        cleanPath == IF StartsWith(path, "/") THEN path ELSE <<"/">> \o path
    IN  "https://ik.imagekit.io/" \o self.imageKitId \o "/" \o transformString \o PathStr(cleanPath)

\* SupabaseParams that also forwards the device pixel ratio.
SupabaseParams_WithDpr(options) ==
    (IF NumberSet(options.width) THEN <<"width=" \o NumToString(Val(options.width))>> ELSE <<>>)
    \o (IF NumberSet(options.height) THEN <<"height=" \o NumToString(Val(options.height))>> ELSE <<>>)
    \o (IF NumberSet(options.quality) THEN <<"quality=" \o NumToString(Val(options.quality))>> ELSE <<>>)
    \o (IF IsSet(options.format) /\ Val(options.format) # "auto"
        THEN <<"format=" \o Val(options.format)>> ELSE <<>>)
    \o (IF IsSet(options.fit) THEN <<"resize=" \o Val(options.fit)>> ELSE <<>>)
    \o (IF NumberSet(options.dpr) THEN <<"dpr=" \o NumToString(Val(options.dpr))>> ELSE <<>>)

\* The URLSearchParams after the set() calls, as key=value entries in insertion order.
SupabaseParams(options) ==
    (IF NumberSet(options.width) THEN <<"width=" \o NumToString(Val(options.width))>> ELSE <<>>)
    \o (IF NumberSet(options.height) THEN <<"height=" \o NumToString(Val(options.height))>> ELSE <<>>)
    \o (IF NumberSet(options.quality) THEN <<"quality=" \o NumToString(Val(options.quality))>> ELSE <<>>)
    \o (IF IsSet(options.format) /\ Val(options.format) # "auto"
        THEN <<"format=" \o Val(options.format)>> ELSE <<>>)
    \o (IF IsSet(options.fit) THEN <<"resize=" \o Val(options.fit)>> ELSE <<>>)

NewSupabaseProvider(supabaseUrl, bucketName) ==
    [name |-> "supabase", supabaseUrl |-> supabaseUrl, bucketName |-> bucketName]

SupabaseGenerateUrl(self, path, options) ==
    LET cleanPath == IF StartsWith(path, "/") THEN Tail(path) ELSE path
        baseUrl == UrlStr(self.supabaseUrl) \o "/storage/v1/render/image/public/"
                   \o self.bucketName \o "/" \o PathStr(cleanPath)
        queryString == Join(SupabaseParams(options), "&")
    IN  IF queryString # "" THEN baseUrl \o "?" \o queryString ELSE baseUrl

(***************************************************************************)
(* SECTION 7 and 8: configuration check and core URL generation.           *)
(* A resolution operator yields what the function returns or throws        *)
(* (ret) and the paths it handed to the provider adapters (given).         *)
(***************************************************************************)
Outcome(ret, given) == [ret |-> ret, given |-> given]

\* TRUE when ensureConfigured() throws
ensureConfigured(cfg, primary, backup) ==
    cfg = Null \/ primary = Null \/ backup = Null

\* MergeDefaults with the spread reversed: { ...data, ...DEFAULTS }.
MergeDefaults_DefaultsLast(data) ==
    [k \in OptionFields |->
        IF k \in DOMAIN DEFAULTS THEN Some(DEFAULTS[k]) ELSE data[k]]

MergeDefaults(data) ==
    [k \in OptionFields |->
        IF IsSet(data[k]) THEN data[k]
        ELSE IF k \in DOMAIN DEFAULTS THEN Some(DEFAULTS[k])
        ELSE {}]

OptimizedMedia(src, fallbackSrc, provider) ==
    [src |-> src, fallbackSrc |-> fallbackSrc, provider |-> provider]

\* getMediaUrl that sanitizes the path before it checks the configuration.
getMediaUrl_SanitizeFirst(cfg, primaryP, backupP, path, options) ==
    LET safe == sanitizePath(path) IN
    IF ~safe.ok THEN Outcome(safe, {})
    ELSE IF ensureConfigured(cfg, primaryP, backupP) THEN Outcome(Throw(NotConfiguredError), {})
    ELSE LET issues == TransformOptionsSchema(options) IN
    IF issues # <<>> THEN Outcome(Throw(ValidationError(issues)), {})
    ELSE LET safePath == safe.value
             opts == MergeDefaults(options)
             primary == ImageKitGenerateUrl(primaryP, safePath, opts)
             backup == SupabaseGenerateUrl(backupP, safePath, opts)
         IN  IF cfg.forceBackupMode
             THEN Outcome(Return(OptimizedMedia(backup, backup, "supabase")), {safePath})
             ELSE Outcome(Return(OptimizedMedia(primary, backup, "imagekit")), {safePath})

\* getMediaUrl whose force-backup branch still returns the primary URL as src.
getMediaUrl_ForceKeepsPrimary(cfg, primaryP, backupP, path, options) ==
    IF ensureConfigured(cfg, primaryP, backupP) THEN Outcome(Throw(NotConfiguredError), {})
    ELSE LET safe == sanitizePath(path) IN
    IF ~safe.ok THEN Outcome(safe, {})
    ELSE LET issues == TransformOptionsSchema(options) IN
    IF issues # <<>> THEN Outcome(Throw(ValidationError(issues)), {})
    ELSE LET safePath == safe.value
             opts == MergeDefaults(options)
             primary == ImageKitGenerateUrl(primaryP, safePath, opts)
             backup == SupabaseGenerateUrl(backupP, safePath, opts)
         IN  IF cfg.forceBackupMode
             THEN Outcome(Return(OptimizedMedia(primary, backup, "supabase")), {safePath})
             ELSE Outcome(Return(OptimizedMedia(primary, backup, "imagekit")), {safePath})

\* getMediaUrl that validates the options before it sanitizes the path.
getMediaUrl_OptionsFirst(cfg, primaryP, backupP, path, options) ==
    IF ensureConfigured(cfg, primaryP, backupP) THEN Outcome(Throw(NotConfiguredError), {})
    ELSE LET issues == TransformOptionsSchema(options) IN
    IF issues # <<>> THEN Outcome(Throw(ValidationError(issues)), {})
    ELSE LET safe == sanitizePath(path) IN
    IF ~safe.ok THEN Outcome(safe, {})
    ELSE LET safePath == safe.value
             opts == MergeDefaults(options)
             primary == ImageKitGenerateUrl(primaryP, safePath, opts)
             backup == SupabaseGenerateUrl(backupP, safePath, opts)
         IN  IF cfg.forceBackupMode
             THEN Outcome(Return(OptimizedMedia(backup, backup, "supabase")), {safePath})
             ELSE Outcome(Return(OptimizedMedia(primary, backup, "imagekit")), {safePath})

getMediaUrl(cfg, primaryP, backupP, path, options) ==
    IF ensureConfigured(cfg, primaryP, backupP) THEN Outcome(Throw(NotConfiguredError), {})
    ELSE LET safe == sanitizePath(path) IN
    IF ~safe.ok THEN Outcome(safe, {})
    ELSE LET issues == TransformOptionsSchema(options) IN
    IF issues # <<>> THEN Outcome(Throw(ValidationError(issues)), {})
    ELSE LET safePath == safe.value
             opts == MergeDefaults(options)
             primary == ImageKitGenerateUrl(primaryP, safePath, opts)
             backup == SupabaseGenerateUrl(backupP, safePath, opts)
         IN  IF cfg.forceBackupMode
             THEN Outcome(Return(OptimizedMedia(backup, backup, "supabase")), {safePath})
             ELSE Outcome(Return(OptimizedMedia(primary, backup, "imagekit")), {safePath})

\* widths.map(...).join(', '): the widths are resolved in order and the first
\* failure is thrown; entries and given are those of the widths before i.
RECURSIVE MapWidths(_, _, _, _, _, _, _, _, _)
MapWidths(cfg, primaryP, backupP, safePath, options, widths, i, entries, given) ==
    IF i > Len(widths) THEN Outcome(Return(Join(entries, ", ")), given)
    ELSE LET one == getMediaUrl(cfg, primaryP, backupP, safePath,
                                [options EXCEPT !.width = Some(widths[i])])
         IN  IF ~one.ret.ok THEN Outcome(one.ret, given)
             ELSE MapWidths(cfg, primaryP, backupP, safePath, options, widths, i + 1,
                            Append(entries, one.ret.value.src \o " "
                                            \o NumToString(widths[i]) \o "w"),
                            given \cup one.given)

\* widths: readonly number[] = RESPONSIVE_WIDTHS
DefaultWidths(widths) == IF IsSet(widths) THEN Val(widths) ELSE RESPONSIVE_WIDTHS

\* getResponsiveSrcSet that maps the widths in descending index order.
getResponsiveSrcSet_Reversed(cfg, primaryP, backupP, path, options, widths) ==
    IF ensureConfigured(cfg, primaryP, backupP) THEN Outcome(Throw(NotConfiguredError), {})
    ELSE LET safe == sanitizePath(path)
             ws == DefaultWidths(widths)
         IN
    IF ~safe.ok THEN Outcome(safe, {})
    ELSE MapWidths(cfg, primaryP, backupP, safe.value, options,
                   [i \in 1..Len(ws) |-> ws[Len(ws) + 1 - i]], 1, <<>>, {})

getResponsiveSrcSet(cfg, primaryP, backupP, path, options, widths) ==
    IF ensureConfigured(cfg, primaryP, backupP) THEN Outcome(Throw(NotConfiguredError), {})
    ELSE LET safe == sanitizePath(path) IN
    IF ~safe.ok THEN Outcome(safe, {})
    ELSE MapWidths(cfg, primaryP, backupP, safe.value, options, DefaultWidths(widths),
                   1, <<>>, {})

\* { ...result, srcSet }: what getOptimizedMedia does, given what its
\* getMediaUrl call (res) and then its getResponsiveSrcSet call (srcSet) did.
WithSrcSet(res, srcSet) ==
    IF ~res.ret.ok THEN res
    ELSE IF ~srcSet.ret.ok THEN Outcome(srcSet.ret, res.given \cup srcSet.given)
    ELSE Outcome(Return([src |-> res.ret.value.src,
                         fallbackSrc |-> res.ret.value.fallbackSrc,
                         provider |-> res.ret.value.provider,
                         srcSet |-> srcSet.ret.value]),
                 res.given \cup srcSet.given)

\* getOptimizedMedia whose srcSet is built without the caller's options.
getOptimizedMedia_PlainSrcSet(cfg, primaryP, backupP, path, options) ==
    WithSrcSet(getMediaUrl(cfg, primaryP, backupP, path, options),
               getResponsiveSrcSet(cfg, primaryP, backupP, path, NoOptions, {}))

getOptimizedMedia(cfg, primaryP, backupP, path, options) ==
    WithSrcSet(getMediaUrl(cfg, primaryP, backupP, path, options),
               getResponsiveSrcSet(cfg, primaryP, backupP, path, options, {}))

\* The try/catch of useOptimizedImage without its catch clause.
Degrade_NoCatch(out) ==
    IF out.ret.ok
    THEN Outcome(Return([src |-> out.ret.value.src,
                         fallbackSrc |-> out.ret.value.fallbackSrc,
                         srcSet |-> IF out.ret.value.srcSet # ""
                                    THEN out.ret.value.srcSet ELSE "",
                         provider |-> out.ret.value.provider,
                         error |-> Null]),
                 out.given)
    ELSE out

\* The try/catch of useOptimizedImage around what getOptimizedMedia did (out):
\* the fields of its return with error null, or empty strings and the error.
Degrade(out) ==
    IF out.ret.ok
    THEN Outcome(Return([src |-> out.ret.value.src,
                         fallbackSrc |-> out.ret.value.fallbackSrc,
                         srcSet |-> IF out.ret.value.srcSet # ""
                                    THEN out.ret.value.srcSet ELSE "",
                         provider |-> out.ret.value.provider,
                         error |-> Null]),
                 out.given)
    ELSE Outcome(Return([src |-> "",
                         fallbackSrc |-> "",
                         srcSet |-> "",
                         provider |-> "imagekit",
                         error |-> out.ret.error]),
                 out.given)

\* The callback useOptimizedImage hands to useMemo: it runs at the first
\* render and at every render where the path or the options have changed.
useOptimizedImage(cfg, primaryP, backupP, path, options) ==
    Degrade(getOptimizedMedia(cfg, primaryP, backupP, path, options))

(***************************************************************************)
(* The legacy module AdaptiveMediaGateway.tsx.  It has a configuration of  *)
(* its own, read from the environment when the module is loaded; its URLs  *)
(* are strings as in the main module, its supabaseUrl is a string.         *)
(***************************************************************************)
\* process.env with none of the four variables set
NoEnv == [imageKitId |-> "", supabaseUrl |-> "", bucketName |-> "", forceBackup |-> ""]

\* The initial value of the legacy globalConfig under the environment env.
LegacyConfig(env) ==
    [imageKitId |-> env.imageKitId,
     supabaseUrl |-> env.supabaseUrl,
     bucketName |-> IF env.bucketName # "" THEN env.bucketName ELSE "public",
     forceBackupMode |-> {env.forceBackup = "true"}]

\* { ...globalConfig, ...config }: a key of the partial record replaces the
\* stored one.
configureMediaOptimizer(cfg, config) ==
    [k \in DOMAIN cfg |-> IF k = "forceBackupMode"
                          THEN IF config[k] # {} THEN config[k] ELSE cfg[k]
                          ELSE IF config[k] # {} THEN Val(config[k]) ELSE cfg[k]]

generateImageKitUrl(cfg, path, options) ==
    LET cleanPath == IF StartsWith(path, "/") THEN path ELSE <<"/">> \o path
        transforms ==
            (IF NumberSet(options.width) THEN <<"w-" \o NumToString(Val(options.width))>> ELSE <<>>)
            \o (IF NumberSet(options.height) THEN <<"h-" \o NumToString(Val(options.height))>> ELSE <<>>)
            \o (IF NumberSet(options.quality) THEN <<"q-" \o NumToString(Val(options.quality))>> ELSE <<>>)
            \o (IF options.fit = {"contain"} THEN <<"c-at_max">>
                ELSE IF options.fit = {"cover"} THEN <<"c-maintain_ratio">>
                ELSE IF options.fit = {"fill"} THEN <<"c-force">>
                ELSE <<>>)
            \o (IF IsSet(options.format) /\ Val(options.format) # "auto"
                THEN <<"f-" \o Val(options.format)>> ELSE <<>>)
        transformString == IF Len(transforms) > 0 THEN "tr:" \o Join(transforms, ",") ELSE ""
    IN  "https://ik.imagekit.io/" \o cfg.imageKitId \o "/" \o transformString \o PathStr(cleanPath)

generateSupabaseUrl(cfg, path, options) ==
    LET cleanPath == IF StartsWith(path, "/") THEN Tail(path) ELSE path
        baseUrl == cfg.supabaseUrl \o "/storage/v1/render/image/public/"
                   \o cfg.bucketName \o "/" \o PathStr(cleanPath)
        params ==
            (IF NumberSet(options.width) THEN <<"width=" \o NumToString(Val(options.width))>> ELSE <<>>)
            \o (IF NumberSet(options.height) THEN <<"height=" \o NumToString(Val(options.height))>> ELSE <<>>)
            \o (IF NumberSet(options.quality) THEN <<"quality=" \o NumToString(Val(options.quality))>> ELSE <<>>)
            \o (IF IsSet(options.format) /\ Val(options.format) # "auto"
                THEN <<"format=" \o Val(options.format)>> ELSE <<>>)
            \o (IF IsSet(options.fit) THEN <<"resize=" \o Val(options.fit)>> ELSE <<>>)
        queryString == Join(params, "&")
    IN  IF queryString # "" THEN baseUrl \o "?" \o queryString ELSE baseUrl

\* The legacy entry point: defaults, both URLs, force-backup selection.
getMediaUrls(cfg, path, options) ==
    LET opts == [options EXCEPT
                    !.quality = IF IsSet(options.quality) THEN @ ELSE {Int0(80)},
                    !.fit = IF IsSet(options.fit) THEN @ ELSE {"cover"}]
        primary == generateImageKitUrl(cfg, path, opts)
        backup == generateSupabaseUrl(cfg, path, opts)
    IN  IF cfg.forceBackupMode = {TRUE}
        THEN Return([src |-> backup, backupSrc |-> backup, provider |-> "supabase"])
        ELSE Return([src |-> primary, backupSrc |-> backup, provider |-> "imagekit"])

(***************************************************************************)
(* Inputs                                                                  *)
(***************************************************************************)
ImagesA == <<"i", "m", "a", "g", "e", "s", "/", "a", ".", "j", "p", "g">>

XJpg == <<"x", ".", "j", "p", "g">>

Options(set) == [k \in OptionFields |-> IF k \in DOMAIN set THEN Some(set[k]) ELSE {}]

ExampleOptions ==
    Options([width |-> Int0(800), quality |-> Int0(85), format |-> "webp", fit |-> "cover"])

DemoConfig ==
    [imageKitId |-> "demo", supabaseUrl |-> Url("https", "xyz.supabase.co"),
     bucketName |-> "uploads", forceBackupMode |-> {}, debug |-> {}]

ConfigInputs ==
    [imageKitId : {"", "demo"},
     supabaseUrl : {Url("https", "xyz.supabase.co"), Url("http", "example.com"), Url("", "not-a-url")},
     bucketName : {"", "uploads"},
     forceBackupMode : {{}, {TRUE}},
     debug : {{}}]

PathInputs == {ImagesA, XJpg, <<"/">> \o XJpg, <<".", ".", "/">> \o XJpg, <<SP, "/">> \o XJpg}

OptionInputs ==
    { NoOptions,
      ExampleOptions,
      Options([width |-> Int0(0)]),
      Options([format |-> "gif"]),
      Options([width |-> Int0(4001), quality |-> Int0(0)]),
      Options([height |-> Int0(600), fit |-> "contain", focal |-> "face",
               dpr |-> Int0(2), blur |-> Int0(10), sharpen |-> TRUE]) }

SrcSetPathInputs == {XJpg, <<".", ".", "/">> \o XJpg, <<SP, "/">> \o XJpg}

SrcSetOptionInputs == {NoOptions, ExampleOptions, Options([format |-> "gif"])}

WidthValues == {Int0(320), Int0(640), Int0(0)}

RECURSIVE SeqsUpTo(_, _)
SeqsUpTo(S, n) ==
    IF n = 0 THEN {<<>>}
    ELSE LET prev == SeqsUpTo(S, n - 1)
         IN  prev \cup {Append(w, x) : w \in prev, x \in S}

\* The widths argument: omitted, or a sequence of at most MaxWidths widths.
WidthInputs == {{}} \cup {{widths} : widths \in SeqsUpTo(WidthValues, MaxWidths)}

(***************************************************************************)
(* The module as a state machine: Init is the module just loaded, and      *)
(* every action is one call of an exported function.                       *)
(***************************************************************************)
Init ==
    /\ globalConfig = Null
    /\ primaryProvider = Null
    /\ backupProvider = Null
    /\ call = [op |-> "none"]
    /\ result = NoResult
    /\ providerInput = {}
    /\ sanitized = <<>>
    /\ console = <<>>
    /\ legacyConfig = LegacyConfig(NoEnv)
    /\ held = NoRecord

\* configureMedia that assigns globalConfig before it validates the record.
ConfigureMedia_AssignFirst(config) ==
    LET issues == ConfigSchema(config) IN
    /\ call' = [op |-> "configureMedia", config |-> config]
    /\ providerInput' = {}
    /\ UNCHANGED <<sanitized, legacyConfig, held>>
    /\ globalConfig' = ConfigData(config)
    /\ IF issues # <<>>
       THEN /\ result' = Throw(InvalidConfigurationError(issues))
            /\ UNCHANGED <<primaryProvider, backupProvider, console>>
       ELSE /\ primaryProvider' = NewImageKitProvider(ConfigData(config).imageKitId)
            /\ backupProvider' = NewSupabaseProvider(ConfigData(config).supabaseUrl,
                                                     ConfigData(config).bucketName)
            /\ console' = IF ConfigData(config).debug
                          THEN Append(console, DebugLine(ConfigData(config)))
                          ELSE console
            /\ result' = Return(Null)

ConfigureMedia(config) ==
    LET issues == ConfigSchema(config) IN
    /\ call' = [op |-> "configureMedia", config |-> config]
    /\ providerInput' = {}
    /\ UNCHANGED <<sanitized, legacyConfig, held>>
    /\ IF issues # <<>>
       THEN /\ result' = Throw(InvalidConfigurationError(issues))
            /\ UNCHANGED <<store, console>>
       ELSE /\ globalConfig' = ConfigData(config)
            /\ primaryProvider' = NewImageKitProvider(ConfigData(config).imageKitId)
            /\ backupProvider' = NewSupabaseProvider(ConfigData(config).supabaseUrl,
                                                     ConfigData(config).bucketName)
            /\ console' = IF ConfigData(config).debug
                          THEN Append(console, DebugLine(ConfigData(config)))
                          ELSE console
            /\ result' = Return(Null)

\* getMediaUrl that switches the store to the backup provider once a call
\* has been made: globalConfig.forceBackupMode = true.
GetMediaUrl_StickyBackup(path, options) ==
    LET out == getMediaUrl(globalConfig, primaryProvider, backupProvider, path, options) IN
    /\ call' = [op |-> "getMediaUrl", path |-> path, options |-> options]
    /\ result' = out.ret
    /\ providerInput' = out.given
    /\ globalConfig' = IF globalConfig = Null THEN Null
                       ELSE [globalConfig EXCEPT !.forceBackupMode = TRUE]
    /\ UNCHANGED <<primaryProvider, backupProvider, sanitized, console, legacyConfig, held>>

GetMediaUrl(path, options) ==
    LET out == getMediaUrl(globalConfig, primaryProvider, backupProvider, path, options) IN
    /\ call' = [op |-> "getMediaUrl", path |-> path, options |-> options]
    /\ result' = out.ret
    /\ providerInput' = out.given
    /\ UNCHANGED <<store, sanitized, console, legacyConfig, held>>

GetResponsiveSrcSet(path, options, widths) ==
    LET out == getResponsiveSrcSet(globalConfig, primaryProvider, backupProvider,
                                   path, options, widths) IN
    /\ call' = [op |-> "getResponsiveSrcSet", path |-> path, options |-> options,
                widths |-> widths]
    /\ result' = out.ret
    /\ providerInput' = out.given
    /\ UNCHANGED <<store, sanitized, console, legacyConfig, held>>

GetOptimizedMedia(path, options) ==
    LET out == getOptimizedMedia(globalConfig, primaryProvider, backupProvider, path, options) IN
    /\ call' = [op |-> "getOptimizedMedia", path |-> path, options |-> options]
    /\ result' = out.ret
    /\ providerInput' = out.given
    /\ UNCHANGED <<store, sanitized, console, legacyConfig, held>>

Next ==
    \/ \E config \in ConfigInputs : ConfigureMedia(config)
    \/ \E path \in PathInputs, options \in OptionInputs : GetMediaUrl(path, options)
    \/ \E path \in SrcSetPathInputs, options \in SrcSetOptionInputs, widths \in WidthInputs :
          GetResponsiveSrcSet(path, options, widths)
    \/ \E path \in PathInputs, options \in OptionInputs : GetOptimizedMedia(path, options)

Spec == Init /\ [][Next]_vars

(***************************************************************************)
(* Specifications of the pure parts.  The store is the one configureMedia  *)
(* leaves after accepting a configuration, the arguments are drawn at the  *)
(* start, and each function is applied once to them.                       *)
(***************************************************************************)
Configured(config) ==
    /\ globalConfig = ConfigData(config)
    /\ primaryProvider = NewImageKitProvider(config.imageKitId)
    /\ backupProvider = NewSupabaseProvider(config.supabaseUrl, config.bucketName)

ForcedConfig == [DemoConfig EXCEPT !.forceBackupMode = {TRUE}]

\* getMediaUrl applied to the drawn arguments
ResolveDrawn ==
    /\ result = NoResult
    /\ LET out == getMediaUrl(globalConfig, primaryProvider, backupProvider,
                              call.path, call.options) IN
       /\ result' = out.ret
       /\ providerInput' = out.given
    /\ UNCHANGED <<store, call, sanitized, console, legacyConfig, held>>

(***************************************************************************)
(* The sanitizer: every concatenation of at most MaxFrags fragments, and   *)
(* paths around the length limit.                                          *)
(***************************************************************************)
Fragments ==
    { <<"a">>, <<"/">>, <<BS>>, <<".">>, <<SP>>, <<TAB>>, <<LF>>, <<"#">>,
      <<"%", "2", "e">>, <<"%", "2", "E">>, <<"%", "2", "5">>, <<"2", "e">>, <<"2", "E">>,
      <<"<">>, <<">">>, <<":">>, <<"\"">>, <<"|">>, <<"?">>, <<"*">>, <<NUL>> }

RECURSIVE FragPaths(_)
FragPaths(n) ==
    IF n = 0 THEN {<<>>}
    ELSE LET prev == FragPaths(n - 1)
         IN  prev \cup {p \o f : p \in prev, f \in Fragments}

LongPaths ==
    {Chars(LIMITS.maxPathLength - 1, "a") \o s :
        s \in {<<>>, <<"a">>, <<"/">>, <<"a", "a">>, <<"/", "/">>, <<SP, SP>>}}

RawPaths == FragPaths(MaxFrags) \cup LongPaths

InitSanitize ==
    /\ Configured(DemoConfig)
    /\ call \in {[op |-> "getMediaUrl", path |-> p, options |-> NoOptions] : p \in RawPaths}
    /\ result = NoResult
    /\ providerInput = {}
    /\ sanitized = <<>>
    /\ console = <<>>
    /\ legacyConfig = LegacyConfig(NoEnv)
    /\ held = NoRecord

Sanitize ==
    /\ sanitized = <<>>
    /\ sanitized' = <<sanitizePath(call.path)>>
    /\ UNCHANGED <<store, call, result, providerInput, console, legacyConfig, held>>

SanitizeAgain ==
    /\ Len(sanitized) = 1
    /\ sanitized[1].ok
    /\ sanitized' = Append(sanitized, sanitizePath(sanitized[1].value))
    /\ UNCHANGED <<store, call, result, providerInput, console, legacyConfig, held>>

NextSanitize == Sanitize \/ SanitizeAgain \/ ResolveDrawn

SpecSanitize == InitSanitize /\ [][NextSanitize]_vars

(***************************************************************************)
(* The two provider adapters alone: generateUrl of each provider applied   *)
(* to a path the sanitizer returns and to options the schema accepts.      *)
(***************************************************************************)
AdapterPaths ==
    {sanitizePath(p).value :
        p \in {q \in {ImagesA, <<"a">>, <<SP, "/">> \o XJpg} : sanitizePath(q).ok}}

AdapterOptions ==
    [width : {{}, {Int0(800)}},
     height : {{}, {Int0(600)}},
     quality : {{}, {Int0(85)}},
     format : {{}, {"auto"}, {"webp"}},
     fit : {{}} \cup {{v} : v \in FitValues},
     focal : {{}} \cup {{v} : v \in FocalValues},
     dpr : {{}, {Int0(1)}, {Num(1, 5)}, {Int0(3)}},
     blur : {{}, {Int0(10)}},
     sharpen : {{}, {TRUE}, {FALSE}}]

InitAdapters ==
    /\ Configured(DemoConfig)
    /\ call \in {[op |-> "generateUrl", path |-> p, options |-> o] :
                    p \in AdapterPaths, o \in AdapterOptions}
    /\ result = [primary |-> {}, backup |-> {}]
    /\ providerInput = {}
    /\ sanitized = <<>>
    /\ console = <<>>
    /\ legacyConfig = LegacyConfig(NoEnv)
    /\ held = NoRecord

PrimaryGenerateUrl ==
    /\ result.primary = {}
    /\ result' = [result EXCEPT
                    !.primary = {ImageKitGenerateUrl(primaryProvider, call.path, call.options)}]
    /\ providerInput' = providerInput \cup {call.path}
    /\ UNCHANGED <<store, call, sanitized, console, legacyConfig, held>>

BackupGenerateUrl ==
    /\ result.backup = {}
    /\ result' = [result EXCEPT
                    !.backup = {SupabaseGenerateUrl(backupProvider, call.path, call.options)}]
    /\ providerInput' = providerInput \cup {call.path}
    /\ UNCHANGED <<store, call, sanitized, console, legacyConfig, held>>

NextAdapters == PrimaryGenerateUrl \/ BackupGenerateUrl

SpecAdapters == InitAdapters /\ [][NextAdapters]_vars

(***************************************************************************)
(* Option ranges: getMediaUrl applied, under a configured store and with   *)
(* a valid path, to every width from 0 to one past the maximum and to      *)
(* every combination of boundary values of the numeric fields.             *)
(***************************************************************************)
WidthProbe == 0..(LIMITS.maxWidth + 1)

Boundary(lo, hi) ==
    {{}, {Int0(lo - 1)}, {Int0(lo)}, {Num(lo, 5)}, {Int0(hi)}, {Int0(hi + 1)}}

RangeOptions ==
    {Options([width |-> Int0(w)]) : w \in WidthProbe}
    \cup {[NoOptions EXCEPT !.width = w, !.height = h, !.quality = q, !.blur = b, !.dpr = d] :
            w \in Boundary(1, 4000) \cup {{Int0(-1)}}, h \in Boundary(1, 4000),
            q \in Boundary(1, 100), b \in Boundary(1, 100),
            d \in {{}, {Num(0, 5)}, {Int0(1)}, {Num(1, 5)}, {Int0(3)}, {Num(3, 5)}}}

InitRanges ==
    /\ Configured(DemoConfig) \/ Configured(ForcedConfig)
    /\ call \in {[op |-> "getMediaUrl", path |-> ImagesA, options |-> o] : o \in RangeOptions}
    /\ result = NoResult
    /\ providerInput = {}
    /\ sanitized = <<>>
    /\ console = <<>>
    /\ legacyConfig = LegacyConfig(NoEnv)
    /\ held = NoRecord

NextRanges == ResolveDrawn

SpecRanges == InitRanges /\ [][NextRanges]_vars

(***************************************************************************)
(* Option validation and defaults: getMediaUrl applied, under a null, a    *)
(* configured and a force-backup store, to a valid and to a forbidden      *)
(* path and to every combination of absent, valid and invalid values of    *)
(* the option fields.                                                      *)
(***************************************************************************)
Unconfigured ==
    /\ globalConfig = Null
    /\ primaryProvider = Null
    /\ backupProvider = Null

FieldOptions ==
    [width : {{}, {Int0(800)}, {Int0(0)}},
     height : {{}},
     quality : {{}, {Int0(85)}, {Int0(101)}},
     format : {{}, {"auto"}, {"webp"}, {"gif"}, {"WEBP"}},
     fit : {{}, {"contain"}, {"crop"}},
     focal : {{}, {"face"}, {"middle"}},
     dpr : {{}, {Int0(2)}, {Num(0, 5)}},
     blur : {{}},
     sharpen : {{}, {TRUE}}]

InitOptions ==
    /\ Unconfigured \/ Configured(DemoConfig) \/ Configured(ForcedConfig)
    /\ call \in {[op |-> "getMediaUrl", path |-> p, options |-> o] :
                    p \in {ImagesA, <<".", ".", "/">> \o XJpg}, o \in FieldOptions}
    /\ result = NoResult
    /\ providerInput = {}
    /\ sanitized = <<>>
    /\ console = <<>>
    /\ legacyConfig = LegacyConfig(NoEnv)
    /\ held = NoRecord

NextOptions == ResolveDrawn

SpecOptions == InitOptions /\ [][NextOptions]_vars

(***************************************************************************)
(* The composed entry points: getResponsiveSrcSet, getOptimizedMedia and   *)
(* the useOptimizedImage callback, each applied once to drawn arguments    *)
(* under a null, a configured and a force-backup store.                    *)
(***************************************************************************)
ComposePaths ==
    {XJpg, <<"a", "/", "/", "b">>, <<".", ".", "/">> \o XJpg, <<SP, "/">> \o XJpg}

ComposeOptions ==
    {NoOptions, ExampleOptions, Options([format |-> "gif"]), Options([quality |-> Int0(0)])}

ComposeWidthValues == {Int0(320), Int0(640), Int0(0), Int0(4001), Num(320, 5)}

ComposeWidths == {{}} \cup {{widths} : widths \in SeqsUpTo(ComposeWidthValues, MaxWidths)}

InitCompose ==
    /\ Unconfigured \/ Configured(DemoConfig) \/ Configured(ForcedConfig)
    /\ call \in {[op |-> "getResponsiveSrcSet", path |-> p, options |-> o, widths |-> w] :
                    p \in ComposePaths, o \in ComposeOptions, w \in ComposeWidths}
               \cup {[op |-> f, path |-> p, options |-> o] :
                        f \in {"getOptimizedMedia", "useOptimizedImage"},
                        p \in ComposePaths, o \in OptionInputs}
    /\ result = NoResult
    /\ providerInput = {}
    /\ sanitized = <<>>
    /\ console = <<>>
    /\ legacyConfig = LegacyConfig(NoEnv)
    /\ held = NoRecord

\* getResponsiveSrcSet applied to the drawn arguments
BuildDrawn ==
    /\ result = NoResult
    /\ call.op = "getResponsiveSrcSet"
    /\ LET out == getResponsiveSrcSet(globalConfig, primaryProvider, backupProvider,
                                      call.path, call.options, call.widths) IN
       /\ result' = out.ret
       /\ providerInput' = out.given
    /\ UNCHANGED <<store, call, sanitized, console, legacyConfig, held>>

\* getOptimizedMedia applied to the drawn arguments
OptimizeDrawn ==
    /\ result = NoResult
    /\ call.op = "getOptimizedMedia"
    /\ LET out == getOptimizedMedia(globalConfig, primaryProvider, backupProvider,
                                    call.path, call.options) IN
       /\ result' = out.ret
       /\ providerInput' = out.given
    /\ UNCHANGED <<store, call, sanitized, console, legacyConfig, held>>

\* a render of useOptimizedImage that runs the callback on the drawn arguments
RenderDrawn ==
    /\ result = NoResult
    /\ call.op = "useOptimizedImage"
    /\ LET out == useOptimizedImage(globalConfig, primaryProvider, backupProvider,
                                    call.path, call.options) IN
       /\ result' = out.ret
       /\ providerInput' = out.given
    /\ UNCHANGED <<store, call, sanitized, console, legacyConfig, held>>

NextCompose == BuildDrawn \/ OptimizeDrawn \/ RenderDrawn

SpecCompose == InitCompose /\ [][NextCompose]_vars

(***************************************************************************)
(* configureMedia alone: one call, on a module just loaded or already      *)
(* configured, with every combination of the field values below.           *)
(***************************************************************************)
ConfigRecords ==
    [imageKitId : {"", "demo"},
     supabaseUrl : {Url("https", "xyz.supabase.co"), Url("http", "example.com"),
                    Url("ftp", "host"), Url("http", "localhost:54321"),
                    Url("", "not-a-url"), Url("", "")},
     bucketName : {"", "uploads"},
     forceBackupMode : {{}, {TRUE}, {FALSE}},
     debug : {{}, {TRUE}, {FALSE}}]

InitConfigure ==
    /\ Unconfigured \/ Configured(DemoConfig)
    /\ call \in {[op |-> "configureMedia", config |-> c] : c \in ConfigRecords}
    /\ result = NoResult
    /\ providerInput = {}
    /\ sanitized = <<>>
    /\ console = <<>>
    /\ legacyConfig = LegacyConfig(NoEnv)
    /\ held = NoRecord

\* configureMedia applied to the drawn record
ConfigureDrawn ==
    /\ result = NoResult
    /\ ConfigureMedia(call.config)

NextConfigure == ConfigureDrawn

SpecConfigure == InitConfigure /\ [][NextConfigure]_vars

(***************************************************************************)
(* The legacy module beside the main one: loaded under some environment,   *)
(* reconfigured with partial records, and asked for URLs.                  *)
(***************************************************************************)
LegacyEnvs ==
    [imageKitId : {"", "demo"},
     supabaseUrl : {"", "https://xyz.supabase.co"},
     bucketName : {"", "uploads"},
     forceBackup : {"", "true"}]

PartialConfigs ==
    [imageKitId : {{}, {"demo"}},
     supabaseUrl : {{}, {"https://xyz.supabase.co"}},
     bucketName : {{}, {"uploads"}},
     forceBackupMode : {{}, {TRUE}, {FALSE}}]

LegacyPaths == {XJpg, ImagesA, <<".", ".", "/">> \o XJpg, <<"/">> \o XJpg}

LegacyOptions ==
    {NoOptions, ExampleOptions, Options([width |-> Int0(0)]), Options([width |-> Int0(4001)]),
     Options([format |-> "gif"])}

InitLegacy ==
    /\ Unconfigured \/ Configured(DemoConfig) \/ Configured(ForcedConfig)
    /\ call = [op |-> "none"]
    /\ result = NoResult
    /\ providerInput = {}
    /\ sanitized = <<>>
    /\ console = <<>>
    /\ legacyConfig \in {LegacyConfig(env) : env \in LegacyEnvs}
    /\ held = NoRecord

ConfigureMediaOptimizer(config) ==
    /\ legacyConfig' = configureMediaOptimizer(legacyConfig, config)
    /\ UNCHANGED held
    /\ call' = [op |-> "configureMediaOptimizer", config |-> config]
    /\ result' = Return(Null)
    /\ providerInput' = {}
    /\ UNCHANGED <<store, sanitized, console>>

GetMediaUrls(path, options) ==
    /\ call' = [op |-> "getMediaUrls", path |-> path, options |-> options]
    /\ result' = getMediaUrls(legacyConfig, path, options)
    /\ providerInput' = {path}
    /\ UNCHANGED <<store, sanitized, console, legacyConfig, held>>

NextLegacy ==
    \/ \E config \in PartialConfigs : ConfigureMediaOptimizer(config)
    \/ \E path \in LegacyPaths, options \in LegacyOptions : GetMediaUrls(path, options)

SpecLegacy == InitLegacy /\ [][NextLegacy]_vars

(***************************************************************************)
(* The configuration records a caller holds.  A record is an object: it    *)
(* has a value and it either is the object the store refers to (shared)    *)
(* or a separate one.  The caller builds a record and passes it to         *)
(* configureMedia, obtains one from getConfig, and assigns to the fields   *)
(* of the record it holds.                                                 *)
(***************************************************************************)
ConfigRecord(value, shared, origin) ==
    [value |-> value, shared |-> shared, origin |-> origin, writes |-> 0]

\* getConfig that returns the stored object itself: return globalConfig.
getConfig_NoCopy(cfg) ==
    IF cfg = Null THEN Null ELSE ConfigRecord(cfg, TRUE, "getConfig")

\* return globalConfig ? { ...globalConfig } : null
getConfig(cfg) ==
    IF cfg = Null THEN Null ELSE ConfigRecord(cfg, FALSE, "getConfig")

StoreConfigs ==
    { DemoConfig,
      ForcedConfig,
      [DemoConfig EXCEPT !.imageKitId = ""],
      [DemoConfig EXCEPT !.supabaseUrl = Url("", "not-a-url"), !.bucketName = ""],
      [DemoConfig EXCEPT !.imageKitId = "other", !.bucketName = "private"] }

StorePaths == {XJpg, <<".", ".", "/">> \o XJpg}

StoreOptions == {NoOptions, Options([format |-> "gif"])}

StoreWidths == {{}, {<<Int0(320)>>}}

\* The values of a held record after one assignment to one of its fields.
Mutations(h) ==
    IF h = NoRecord THEN {}
    ELSE { [h.value EXCEPT !.imageKitId = "other"],
           [h.value EXCEPT !.supabaseUrl = Url("https", "evil.example.com")],
           [h.value EXCEPT !.bucketName = "private"],
           [h.value EXCEPT !.forceBackupMode =
               IF h.origin = "getConfig" THEN ~@ ELSE IF @ = {TRUE} THEN {FALSE} ELSE {TRUE}] }
         \ {h.value}

InitStore ==
    /\ Unconfigured
    /\ call = [op |-> "none"]
    /\ result = NoResult
    /\ providerInput = {}
    /\ sanitized = <<>>
    /\ console = <<>>
    /\ legacyConfig = LegacyConfig(NoEnv)
    /\ held = NoRecord

\* const config = { ... }: the caller builds a record of its own.
NewConfig(config) ==
    /\ held' = ConfigRecord(config, FALSE, "caller")
    /\ UNCHANGED <<store, call, result, providerInput, sanitized, console, legacyConfig>>

\* configureMedia(config) with the record the caller holds; the store takes
\* the parsed data, an object of its own, and the caller keeps its record.
ConfigureHeld ==
    /\ held # NoRecord
    /\ held.origin = "caller"
    /\ ConfigureMedia(held.value)

GetConfig ==
    /\ call' = [op |-> "getConfig"]
    /\ result' = Return(IF getConfig(globalConfig) = Null THEN Null
                        ELSE getConfig(globalConfig).value)
    /\ held' = IF getConfig(globalConfig) = Null THEN held ELSE getConfig(globalConfig)
    /\ providerInput' = {}
    /\ UNCHANGED <<store, sanitized, console, legacyConfig>>

\* record.field = v: an assignment to a field of the held record; it is an
\* assignment to the stored configuration when the two are one object.
MutateHeld(value) ==
    /\ held # NoRecord
    /\ held.writes < MaxWrites
    /\ held' = [held EXCEPT !.value = value, !.writes = @ + 1]
    /\ globalConfig' = IF held.shared THEN value ELSE globalConfig
    /\ UNCHANGED <<primaryProvider, backupProvider, call, result, providerInput,
                   sanitized, console, legacyConfig>>

NextStore ==
    \/ \E config \in StoreConfigs : NewConfig(config)
    \/ ConfigureHeld
    \/ GetConfig
    \/ \E value \in Mutations(held) : MutateHeld(value)
    \/ \E path \in StorePaths, options \in StoreOptions : GetMediaUrl(path, options)
    \/ \E path \in StorePaths, options \in StoreOptions, widths \in StoreWidths :
          GetResponsiveSrcSet(path, options, widths)
    \/ \E path \in StorePaths, options \in StoreOptions : GetOptimizedMedia(path, options)

SpecStore == InitStore /\ [][NextStore]_vars

(***************************************************************************)
(* PROPERTIES                                                              *)
(***************************************************************************)
ResolutionOps == {"getMediaUrl", "getResponsiveSrcSet", "getOptimizedMedia"}

NotConfigured(r) == ~r.ok /\ r.error = NotConfiguredError

Failed(r, name) == ~r.ok /\ r.error.name = name

\* C1: while no configureMedia call has succeeded, getMediaUrl,
\* getResponsiveSrcSet and getOptimizedMedia throw the not-configured
\* ConfigurationError for every path and options, and no path reaches a
\* provider adapter (no URL is built).
C1_NotConfiguredFirst ==
    (globalConfig = Null /\ call.op \in ResolutionOps)
        => (NotConfigured(result) /\ providerInput = {})

\* C1 witness: an unconfigured store, a call with an invalid path and invalid
\* options, and the not-configured error as its result.
C1_Witness ==
    /\ globalConfig = Null
    /\ call.op = "getResponsiveSrcSet"
    /\ call.path = <<".", ".", "/">> \o XJpg
    /\ call.options = Options([format |-> "gif"])
    /\ NotConfigured(result)

\* C2: every successful getMediaUrl returns as fallbackSrc the backup adapter's
\* URL for the sanitized path and the defaulted options; under forceBackupMode
\* src is that same URL and the provider is the backup one, otherwise src is
\* the primary adapter's URL and the provider is the primary one.
C2_SelectionPolicy ==
    (call.op = "getMediaUrl" /\ result.ok) =>
        LET safePath == sanitizePath(call.path).value
            opts == [k \in OptionFields |->
                        IF call.options[k] # {} THEN call.options[k]
                        ELSE IF k = "quality" THEN {Int0(80)}
                        ELSE IF k = "fit" THEN {"cover"}
                        ELSE IF k = "format" THEN {"auto"}
                        ELSE IF k = "dpr" THEN {Int0(1)}
                        ELSE {}]
            primaryOut == ImageKitGenerateUrl(primaryProvider, safePath, opts)
            backupOut == SupabaseGenerateUrl(backupProvider, safePath, opts)
        IN  /\ result.value.fallbackSrc = backupOut
            /\ globalConfig.forceBackupMode =>
                   (result.value.src = result.value.fallbackSrc
                    /\ result.value.provider = "supabase")
            /\ ~globalConfig.forceBackupMode =>
                   (result.value.src = primaryOut /\ result.value.provider = "imagekit")

\* C2 witness: a successful getMediaUrl under forceBackupMode.
C2_Witness ==
    /\ globalConfig # Null
    /\ globalConfig.forceBackupMode
    /\ call.op = "getMediaUrl"
    /\ call.options = ExampleOptions
    /\ result.ok
    /\ result.value.src = result.value.fallbackSrc
    /\ result.value.provider = "supabase"

\* A path as the data model defines a sanitized path: no leading slash.
NoLeadingSlash(p) == p = <<>> \/ p[1] # "/"

NonEmpty(xs) == SelectSeq(xs, LAMBDA x : x # "")

FitCodeTable == [cover |-> "c-maintain_ratio", contain |-> "c-at_max", fill |-> "c-force"]

\* The transform segment as section 4.3 describes it: one slot per option in
\* the fixed order, the empty slots dropped.
TransformSegment(o) ==
    LET slots ==
          << IF o.width # {} THEN "w-" \o NumToString(Val(o.width)) ELSE "",
             IF o.height # {} THEN "h-" \o NumToString(Val(o.height)) ELSE "",
             IF o.quality # {} THEN "q-" \o NumToString(Val(o.quality)) ELSE "",
             IF o.fit # {} THEN FitCodeTable[Val(o.fit)] ELSE "",
             IF o.focal # {} THEN "fo-" \o Val(o.focal) ELSE "",
             IF o.format \notin {{}, {"auto"}} THEN "f-" \o Val(o.format) ELSE "",
             IF o.dpr # {} /\ GreaterThan(Val(o.dpr), 1)
                 THEN "dpr-" \o NumToString(Val(o.dpr)) ELSE "",
             IF o.blur # {} THEN "bl-" \o NumToString(Val(o.blur)) ELSE "",
             IF o.sharpen = {TRUE} THEN "e-sharpen" ELSE "" >>
    IN  IF NonEmpty(slots) = <<>> THEN "" ELSE "tr:" \o Join(NonEmpty(slots), ",")

QueryString(o) ==
    LET params ==
          << IF o.width # {} THEN "width=" \o NumToString(Val(o.width)) ELSE "",
             IF o.height # {} THEN "height=" \o NumToString(Val(o.height)) ELSE "",
             IF o.quality # {} THEN "quality=" \o NumToString(Val(o.quality)) ELSE "",
             IF o.format \notin {{}, {"auto"}} THEN "format=" \o Val(o.format) ELSE "",
             IF o.fit # {} THEN "resize=" \o Val(o.fit) ELSE "" >>
    IN  IF NonEmpty(params) = <<>> THEN "" ELSE "?" \o Join(NonEmpty(params), "&")

\* C4: for a sanitized path and validated options the backup adapter returns
\* <supabaseUrl>/storage/v1/render/image/public/<bucketName>/<path> and then a
\* query string with one parameter for each option present among width,
\* height, quality, format (not for auto) and resize (the fit value as it is);
\* focal, dpr, blur and sharpen add nothing, and without parameters there is
\* no query string and no "?".
C4_BackupUrl ==
    \A url \in result.backup :
        NoLeadingSlash(call.path) =>
            url = UrlStr(backupProvider.supabaseUrl) \o "/storage/v1/render/image/public/"
                  \o backupProvider.bucketName \o "/" \o PathStr(call.path)
                  \o QueryString(call.options)

\* C4 witness: fit, focal, dpr, blur and sharpen are set; only resize appears.
C4_Witness ==
    /\ call.path = ImagesA
    /\ call.options = Options([fit |-> "contain", focal |-> "face", dpr |-> Num(1, 5),
                               blur |-> Int0(10), sharpen |-> TRUE])
    /\ result.backup =
           {"https://xyz.supabase.co/storage/v1/render/image/public/uploads/images/a.jpg?resize=contain"}

HasSub(s, pat) ==
    \E i \in 1..(Len(s) - Len(pat) + 1) : SubSeq(s, i, i + Len(pat) - 1) = pat

\* The forbidden patterns as the specification lists them.
ListedForbidden(p) ==
    \/ HasSub(p, <<".", ".">>)
    \/ HasSub(p, <<".", BS>>)
    \/ \E x \in {"e", "E"}, y \in {"e", "E"} : HasSub(p, <<"%", "2", x, "%", "2", y>>)
    \/ \E x \in {"e", "E"} : HasSub(p, <<"%", "2", "5", "2", x>>)
    \/ \E i \in 1..Len(p) : p[i] \in {NUL, "<", ">", ":", "\"", "|", "?", "*"}

\* C5: sanitizePath throws InvalidPathError for every input that contains
\* "..", ".\", "%2e%2e" or "%252e" in any letter case, a null byte, "<", ">"
\* or one of :"|?* ; getMediaUrl on such a path throws the same error, hands
\* nothing to the adapters, and no path handed to an adapter contains any of
\* these patterns.
C5_ForbiddenRejected ==
    /\ (sanitized # <<>> /\ ListedForbidden(call.path))
           => Failed(sanitized[1], "InvalidPathError")
    /\ (result # NoResult /\ ListedForbidden(call.path))
           => (Failed(result, "InvalidPathError") /\ providerInput = {})
    /\ \A p \in providerInput : ~ListedForbidden(p)

\* C5 witness: an upper-case encoded traversal, rejected by the sanitizer and
\* by getMediaUrl.
C5_Witness ==
    /\ call.path = <<"%", "2", "E", "%", "2", "e", "/">>
    /\ sanitized # <<>>
    /\ Failed(sanitized[1], "InvalidPathError")
    /\ result # NoResult
    /\ Failed(result, "InvalidPathError")

\* C6: every string sanitizePath returns has no leading slash, no backslash,
\* no two consecutive slashes, is not empty and has at most 500 characters.
C6_SanitizedShape ==
    (sanitized # <<>> /\ sanitized[1].ok) =>
        LET v == sanitized[1].value
        IN  /\ v # <<>>
            /\ v[1] # "/"
            /\ \A i \in 1..Len(v) : v[i] # BS
            /\ ~HasSub(v, <<"/", "/">>)
            /\ Len(v) <= 500

\* Percent-decoding, once: %2e and %2E give a dot, %25 gives a percent sign.
EscapeAt(s, i) ==
    i >= 1 /\ i + 2 <= Len(s) /\ s[i] = "%" /\ s[i + 1] = "2" /\ s[i + 2] \in {"e", "E", "5"}

PercentDecode(s) ==
    LET marked == [i \in 1..Len(s) |->
                     [char |-> IF ~EscapeAt(s, i) THEN s[i]
                               ELSE IF s[i + 2] = "5" THEN "%" ELSE ".",
                      keep |-> ~EscapeAt(s, i - 1) /\ ~EscapeAt(s, i - 2)]]
        kept == SelectSeq(marked, LAMBDA m : m.keep)
    IN  [i \in 1..Len(kept) |-> kept[i].char]

\* C7: a path sanitizePath accepts, and the path it returns for it, contain
\* no ".." as they are, after one percent-decoding, or after two.
C7_NoEncodedTraversal ==
    (sanitized # <<>> /\ sanitized[1].ok) =>
        \A p \in {call.path, sanitized[1].value} :
            /\ ~HasSub(p, <<".", ".">>)
            /\ ~HasSub(PercentDecode(p), <<".", ".">>)
            /\ ~HasSub(PercentDecode(PercentDecode(p)), <<".", ".">>)

\* C8: sanitizePath applied to a path it returned succeeds and returns the
\* same path.
C8_Idempotent ==
    Len(sanitized) = 2 =>
        (sanitized[2].ok /\ sanitized[2].value = sanitized[1].value)

\* C9: sanitizePath throws only for an empty input, a length over 500, a
\* listed forbidden pattern or an empty result of the normalization; an input
\* with leading slashes and none of these is accepted and returned without
\* its leading slashes.
C9_OnlyListedFailures ==
    sanitized # <<>> =>
        LET p == call.path
            listed == \/ p = <<>>
                      \/ Len(p) > 500
                      \/ ListedForbidden(p)
                      \/ Normalize(p) = <<>>
        IN  /\ ~sanitized[1].ok => listed
            /\ (p # <<>> /\ p[1] = "/" /\ ~listed) =>
                   (sanitized[1].ok /\ sanitized[1].value = Normalize(p))

Tenths(n) == 10 * n.int + n.frac

IntegerIn(f, lo, hi) ==
    f = {} \/ (Val(f).frac = 0 /\ lo <= Val(f).int /\ Val(f).int <= hi)

RealIn(f, lo, hi) ==
    f = {} \/ (10 * lo <= Tenths(Val(f)) /\ Tenths(Val(f)) <= 10 * hi)

\* C10: with a configured store and a valid path, getMediaUrl succeeds exactly
\* when every present field among width and height (integers 1..4000),
\* quality and blur (integers 1..100) and dpr (1..3, fractions allowed) is in
\* its range, and throws ValidationError otherwise; a width alone in 1..4000
\* appears unchanged in both URLs.
C10_NumericRanges ==
    (call.op = "getMediaUrl" /\ result # NoResult /\ globalConfig # Null) =>
        LET o == call.options
            inRange == /\ IntegerIn(o.width, 1, 4000)
                       /\ IntegerIn(o.height, 1, 4000)
                       /\ IntegerIn(o.quality, 1, 100)
                       /\ IntegerIn(o.blur, 1, 100)
                       /\ RealIn(o.dpr, 1, 3)
            primaryUrl == "https://ik.imagekit.io/demo/tr:w-" \o ToString(Val(o.width).int)
                          \o ",q-80,c-maintain_ratio/images/a.jpg"
            backupUrl == "https://xyz.supabase.co/storage/v1/render/image/public/uploads/images/a.jpg?width="
                         \o ToString(Val(o.width).int) \o "&quality=80&resize=cover"
        IN  /\ inRange => result.ok
            /\ ~inRange => Failed(result, "ValidationError")
            /\ (inRange /\ o.width # {} /\ o = [NoOptions EXCEPT !.width = o.width]) =>
                   /\ result.value.fallbackSrc = backupUrl
                   /\ result.value.src =
                          IF globalConfig.forceBackupMode THEN backupUrl ELSE primaryUrl

\* C10 witness: the largest width, accepted and carried into the primary URL.
C10_Witness ==
    /\ call.op = "getMediaUrl"
    /\ call.options = Options([width |-> Int0(4000)])
    /\ result # NoResult
    /\ result.ok
    /\ result.value.src = "https://ik.imagekit.io/demo/tr:w-4000,q-80,c-maintain_ratio/images/a.jpg"

\* The fields of the options whose value is outside the enum of the field.
EnumViolations(o) ==
    {k \in {"format", "fit", "focal"} :
        /\ o[k] # {}
        /\ \/ k = "format" /\ o[k] \notin {{"auto"}, {"webp"}, {"avif"}, {"jpg"}, {"png"}}
           \/ k = "fit" /\ o[k] \notin {{"cover"}, {"contain"}, {"fill"}}
           \/ k = "focal" /\ o[k] \notin {{"auto"}, {"face"}, {"center"}, {"top"},
                                           {"bottom"}, {"left"}, {"right"}}}

\* The fields an error of the option validation names.
NamedFields(r) == {r.error.reason[i].path : i \in 1..Len(r.error.reason)}

\* C11: a getMediaUrl call whose format, fit or focal is outside its enum
\* never returns: no URL is built from a default in place of the value, and
\* when the store is configured and the path is valid the call throws
\* ValidationError, which names each such field.
C11_EnumRejected ==
    (call.op = "getMediaUrl" /\ result # NoResult /\ EnumViolations(call.options) # {}) =>
        /\ ~result.ok
        /\ providerInput = {}
        /\ (globalConfig # Null /\ sanitizePath(call.path).ok) =>
               /\ Failed(result, "ValidationError")
               /\ EnumViolations(call.options) \subseteq NamedFields(result)

\* C11 witness: an upper-case format name, alone, under a configured store
\* and with a valid path, rejected with ValidationError.
C11_Witness ==
    /\ globalConfig # Null
    /\ call.op = "getMediaUrl"
    /\ call.path = ImagesA
    /\ call.options = Options([format |-> "WEBP"])
    /\ result # NoResult
    /\ Failed(result, "ValidationError")
    /\ providerInput = {}

\* The fields of the options whose value the TransformOptions data type does
\* not admit.
Violations(o) ==
    {k \in {"width", "height"} : ~IntegerIn(o[k], 1, 4000)}
    \cup {k \in {"quality", "blur"} : ~IntegerIn(o[k], 1, 100)}
    \cup {k \in {"dpr"} : ~RealIn(o[k], 1, 3)}
    \cup EnumViolations(o)

\* C12: with a configured store and a valid path, getMediaUrl throws
\* ValidationError exactly when some field of the options violates the
\* TransformOptions type, and the fields the error names are then all the
\* violating fields, not only the first.
C12_AllViolationsNamed ==
    (call.op = "getMediaUrl" /\ result # NoResult
     /\ globalConfig # Null /\ sanitizePath(call.path).ok) =>
        /\ Violations(call.options) # {} <=> Failed(result, "ValidationError")
        /\ Failed(result, "ValidationError") =>
               NamedFields(result) = Violations(call.options)

\* C12 witness: six violating fields, all six named by the one error.
C12_Witness ==
    /\ call.op = "getMediaUrl"
    /\ call.path = ImagesA
    /\ Violations(call.options) = {"width", "quality", "format", "fit", "focal", "dpr"}
    /\ result # NoResult
    /\ Failed(result, "ValidationError")
    /\ NamedFields(result) = {"width", "quality", "format", "fit", "focal", "dpr"}

\* The options section 3 says the URLs are built from: the caller's value of
\* every field set, and the default of quality, fit, format and dpr unset.
Defaulted(o) ==
    [k \in DOMAIN o |->
        IF o[k] # {} THEN o[k]
        ELSE IF k = "quality" THEN {Int0(80)}
        ELSE IF k = "fit" THEN {"cover"}
        ELSE IF k = "format" THEN {"auto"}
        ELSE IF k = "dpr" THEN {Int0(1)}
        ELSE {}]

Breakpoints ==
    <<Int0(320), Int0(640), Int0(768), Int0(1024), Int0(1280), Int0(1536), Int0(1920)>>

\* The widths of a getResponsiveSrcSet call.
WidthsOf(c) == IF c.widths = {} THEN Breakpoints ELSE Val(c.widths)

\* What getMediaUrl does, in the current store, for the path of the call and
\* its options with the width replaced by w.
ResolveAt(c, w) ==
    getMediaUrl(globalConfig, primaryProvider, backupProvider, c.path,
                [c.options EXCEPT !.width = {w}]).ret

\* C14: the string getResponsiveSrcSet returns has one entry for each element
\* of widths, in their order, joined by ", "; the i-th entry is the src that
\* getMediaUrl returns for the same path and the options with width w_i (the
\* backup URL under forceBackupMode), then a space, w_i and "w"; omitted
\* widths stand for 320, 640, 768, 1024, 1280, 1536, 1920.
C14_SrcSetEntries ==
    (call.op = "getResponsiveSrcSet" /\ result # NoResult /\ result.ok) =>
        LET ws == WidthsOf(call)
            entries == [i \in 1..Len(ws) |->
                           LET one == ResolveAt(call, ws[i])
                           IN  IF ~one.ok THEN "no url"
                               ELSE IF globalConfig.forceBackupMode
                               THEN one.value.fallbackSrc \o " " \o NumToString(ws[i]) \o "w"
                               ELSE one.value.src \o " " \o NumToString(ws[i]) \o "w"]
        IN  /\ \A i \in 1..Len(ws) : ResolveAt(call, ws[i]).ok
            /\ result.value = Join(entries, ", ")

\* C14 witness: the call of the example of section 8 with its two widths
\* swapped, buildSrcSet("x.jpg", {}, [640, 320]).
C14_Witness ==
    /\ call.op = "getResponsiveSrcSet"
    /\ call.path = XJpg
    /\ call.options = NoOptions
    /\ call.widths = {<<Int0(640), Int0(320)>>}
    /\ globalConfig # Null
    /\ ~globalConfig.forceBackupMode
    /\ result # NoResult
    /\ result.ok
    /\ result.value = "https://ik.imagekit.io/demo/tr:w-640,q-80,c-maintain_ratio/x.jpg 640w, "
                      \o "https://ik.imagekit.io/demo/tr:w-320,q-80,c-maintain_ratio/x.jpg 320w"

\* Two results that are the same failure.
SameFailure(r1, r2) ==
    /\ ~r1.ok
    /\ ~r2.ok
    /\ r1.error.name = r2.error.name
    /\ r1.error = r2.error

\* C15: a getResponsiveSrcSet call fails, with the error of the first failing
\* width, whenever getMediaUrl fails for the path and the options with one of
\* the widths, at whatever position; and it fails whenever the options it
\* shares among the widths are invalid.
C15_AllOrNothing ==
    (call.op = "getResponsiveSrcSet" /\ result # NoResult) =>
        LET ws == WidthsOf(call)
            failing == {i \in 1..Len(ws) : ~ResolveAt(call, ws[i]).ok}
        IN  /\ failing # {} =>
                   LET first == CHOOSE i \in failing : \A j \in failing : i <= j
                   IN  SameFailure(result, ResolveAt(call, ws[first]))
            /\ Violations([call.options EXCEPT !.width = {}]) # {} => ~result.ok

\* C16: whenever getOptimizedMedia returns, getMediaUrl and
\* getResponsiveSrcSet (widths omitted) return for the same path and options,
\* its src, fallbackSrc and provider are those of getMediaUrl and its srcSet
\* is the string of getResponsiveSrcSet; a width in the options changes src
\* and fallbackSrc only: the srcSet is the one of the options without it.
C16_Composition ==
    (call.op = "getOptimizedMedia" /\ result # NoResult /\ result.ok) =>
        LET one == getMediaUrl(globalConfig, primaryProvider, backupProvider,
                               call.path, call.options).ret
            set == getResponsiveSrcSet(globalConfig, primaryProvider, backupProvider,
                                       call.path, call.options, {}).ret
            setNoWidth == getResponsiveSrcSet(globalConfig, primaryProvider, backupProvider,
                                              call.path, [call.options EXCEPT !.width = {}],
                                              {}).ret
        IN  /\ one.ok
            /\ result.value.src = one.value.src
            /\ result.value.fallbackSrc = one.value.fallbackSrc
            /\ result.value.provider = one.value.provider
            /\ set.ok
            /\ result.value.srcSet = set.value
            /\ setNoWidth.ok
            /\ result.value.srcSet = setNoWidth.value

\* C16 witness: options with width 800: src carries w-800 and the seven
\* srcSet entries carry the seven breakpoints.
C16_Witness ==
    LET entry(w) == "https://ik.imagekit.io/demo/tr:w-" \o w
                    \o ",q-85,c-maintain_ratio,f-webp/x.jpg " \o w \o "w"
    IN  /\ call.op = "getOptimizedMedia"
        /\ call.path = XJpg
        /\ call.options = ExampleOptions
        /\ result # NoResult
        /\ result.ok
        /\ result.value.provider = "imagekit"
        /\ result.value.src =
               "https://ik.imagekit.io/demo/tr:w-800,q-85,c-maintain_ratio,f-webp/x.jpg"
        /\ result.value.srcSet =
               entry("320") \o ", " \o entry("640") \o ", " \o entry("768") \o ", "
               \o entry("1024") \o ", " \o entry("1280") \o ", " \o entry("1536")
               \o ", " \o entry("1920")

C18_SetOnce ==
    [][globalConfig # Null => store' = store]_vars

\* The Configuration schema of section 3: the two identifiers not empty and
\* the backup origin an absolute HTTPS URL, or an HTTP one on a local host.
ValidConfiguration(c) ==
    /\ c.imageKitId # ""
    /\ c.bucketName # ""
    /\ c.supabaseUrl.host # ""
    /\ \/ c.supabaseUrl.scheme = "https"
       \/ /\ c.supabaseUrl.scheme = "http"
          /\ c.supabaseUrl.host \in {"localhost", "localhost:54321", "127.0.0.1"}

\* C19: configureMedia succeeds exactly when its record has a non-empty
\* imageKitId, a non-empty bucketName and a supabaseUrl that is an absolute
\* HTTPS URL (HTTP on a local host only); for every other record, such as
\* one with http://example.com or ftp://host, it throws ConfigurationError.
C19_ConfigurationSchema ==
    (call.op = "configureMedia" /\ result # NoResult) =>
        /\ result.ok <=> ValidConfiguration(call.config)
        /\ ~result.ok => Failed(result, "ConfigurationError")

\* C20: no line configureMedia writes to the console carries the imageKitId,
\* the supabaseUrl or the bucketName of the configuration in full.
C20_MaskedDebugLog ==
    (call.op = "configureMedia" /\ result # NoResult) =>
        \A i \in 1..Len(console) :
            /\ console[i].imageKitId # call.config.imageKitId
            /\ console[i].supabaseUrl # UrlStr(call.config.supabaseUrl)
            /\ console[i].bucketName # call.config.bucketName

\* The legacy module holds the configuration of the main module.
SameConfiguration ==
    /\ globalConfig # Null
    /\ legacyConfig.imageKitId = globalConfig.imageKitId
    /\ legacyConfig.supabaseUrl = UrlStr(globalConfig.supabaseUrl)
    /\ legacyConfig.bucketName = globalConfig.bucketName
    /\ legacyConfig.forceBackupMode = {globalConfig.forceBackupMode}

\* C21: with the two modules configured alike, the legacy getMediaUrls
\* returns URLs only for a path and options that getMediaUrl accepts, and its
\* src and backupSrc are then the src and fallbackSrc of getMediaUrl.
C21_LegacyRoutesThroughEngine ==
    (call.op = "getMediaUrls" /\ SameConfiguration /\ result.ok) =>
        LET engine == getMediaUrl(globalConfig, primaryProvider, backupProvider,
                                  call.path, call.options).ret
        IN  /\ engine.ok
            /\ result.value.src = engine.value.src
            /\ result.value.backupSrc = engine.value.fallbackSrc

\* C22: sanitizePath throws InvalidPathError for every path that contains a
\* question mark, a hash or a control character (null byte, tab, newline),
\* and no path handed to a provider adapter contains a question mark or a
\* hash.
C22_QueryHashControlBlocked ==
    /\ (sanitized # <<>>
        /\ \E i \in 1..Len(call.path) : call.path[i] \in {"?", "#", NUL, TAB, LF})
           => Failed(sanitized[1], "InvalidPathError")
    /\ \A p \in providerInput : \A i \in 1..Len(p) : p[i] \notin {"?", "#"}

\* C23: getMediaUrl checks its preconditions in a fixed order and the first
\* failing one decides the error: the not-configured ConfigurationError when
\* the store is uninitialized, whatever the path and the options; otherwise
\* InvalidPathError when sanitizePath rejects the path, whatever the options;
\* otherwise ValidationError when the options are invalid; otherwise the
\* call returns.
C23_PreconditionOrder ==
    (call.op = "getMediaUrl" /\ result # NoResult) =>
        IF globalConfig = Null THEN Failed(result, "ConfigurationError")
        ELSE IF ~sanitizePath(call.path).ok THEN Failed(result, "InvalidPathError")
        ELSE IF Violations(call.options) # {} THEN Failed(result, "ValidationError")
        ELSE result.ok

\* C23 witness: under a configured store, a traversal path together with an
\* out-of-range width and an unknown format, decided by the path.
C23_Witness ==
    /\ globalConfig # Null
    /\ call.op = "getMediaUrl"
    /\ ~sanitizePath(call.path).ok
    /\ {"width", "format"} \subseteq Violations(call.options)
    /\ result # NoResult
    /\ Failed(result, "InvalidPathError")

\* C24: getConfig returns null while the store is uninitialized and
\* afterwards a record with the stored values, and an assignment to a field
\* of a record the caller holds, whether getConfig returned it or the caller
\* passed it to configureMedia, changes neither the store (so not what later
\* getConfig calls return) nor the URLs getMediaUrl builds.
C24_DefensiveCopy ==
    /\ []((call.op = "getConfig" /\ result # NoResult) => result = Return(globalConfig))
    /\ [][(held # NoRecord /\ held'.writes > held.writes) =>
              /\ store' = store
              /\ \A path \in StorePaths, options \in StoreOptions :
                     getMediaUrl(globalConfig', primaryProvider', backupProvider',
                                 path, options)
                     = getMediaUrl(globalConfig, primaryProvider, backupProvider,
                                   path, options)]_vars

\* C24 witness: getConfig returned the stored configuration, the caller
\* assigned to a field of the returned record, and the store still holds
\* what was returned.
C24_Witness ==
    /\ globalConfig # Null
    /\ call.op = "getConfig"
    /\ result = Return(globalConfig)
    /\ held # NoRecord
    /\ held.origin = "getConfig"
    /\ held.writes > 0
    /\ held.value # globalConfig

\* C25: getMediaUrl, getResponsiveSrcSet, getOptimizedMedia and getConfig,
\* returning or throwing, leave the stored configuration and both adapters
\* unchanged, and what each returns or throws is determined by the store and
\* its arguments alone, whatever calls were made before it.
C25_ResolutionPure ==
    /\ [][call'.op \in ResolutionOps \cup {"getConfig"} => store' = store]_vars
    /\ [](result # NoResult =>
            /\ call.op = "getMediaUrl" =>
                   result = getMediaUrl(globalConfig, primaryProvider, backupProvider,
                                        call.path, call.options).ret
            /\ call.op = "getResponsiveSrcSet" =>
                   result = getResponsiveSrcSet(globalConfig, primaryProvider, backupProvider,
                                                call.path, call.options, call.widths).ret
            /\ call.op = "getOptimizedMedia" =>
                   result = getOptimizedMedia(globalConfig, primaryProvider, backupProvider,
                                              call.path, call.options).ret
            /\ call.op = "getConfig" =>
                   (globalConfig = Null) = (result = Return(Null)))

\* C25 witness: under a configuration that getConfig has read, a
\* getOptimizedMedia call throws and the store is still that configuration.
C25_Witness ==
    /\ globalConfig # Null
    /\ primaryProvider # Null
    /\ backupProvider # Null
    /\ held # NoRecord
    /\ held.origin = "getConfig"
    /\ held.value = globalConfig
    /\ call.op = "getOptimizedMedia"
    /\ result # NoResult
    /\ ~result.ok

\* The stored configuration and the two adapters are all absent, or all
\* present with the adapters built from the stored configuration.
StoreConsistent ==
    IF globalConfig = Null
    THEN primaryProvider = Null /\ backupProvider = Null
    ELSE /\ primaryProvider = NewImageKitProvider(globalConfig.imageKitId)
         /\ backupProvider = NewSupabaseProvider(globalConfig.supabaseUrl,
                                                 globalConfig.bucketName)

\* C26: a configureMedia call that throws leaves the stored configuration
\* and both adapters as they were, so an uninitialized store stays
\* uninitialized and resolution on it still throws the not-configured
\* error, and the stored configuration and the adapters are always all
\* absent or all present and consistent.
C26_FailedConfigureKeepsStore ==
    /\ [][(call'.op = "configureMedia" /\ ~result'.ok) => store' = store]_vars
    /\ []StoreConsistent
    /\ []((globalConfig = Null /\ call.op \in ResolutionOps /\ result # NoResult)
            => Failed(result, "ConfigurationError"))

\* C26 witness: configureMedia has thrown on a configured store, which still
\* holds its configuration and both adapters.
C26_Witness ==
    /\ call.op = "configureMedia"
    /\ ~result.ok
    /\ globalConfig # Null
    /\ StoreConsistent
    /\ call.config.imageKitId # globalConfig.imageKitId

\* C27: whenever getMediaUrl returns for a path and options, getOptimizedMedia
\* returns for them too, and so does getResponsiveSrcSet with widths that are
\* integers from 1 to 4000 (or omitted).
C27_SamePathsAccepted ==
    (/\ result # NoResult
     /\ call.op \in {"getResponsiveSrcSet", "getOptimizedMedia"}
     /\ getMediaUrl(globalConfig, primaryProvider, backupProvider,
                    call.path, call.options).ret.ok
     /\ call.op = "getResponsiveSrcSet" =>
            \A i \in 1..Len(WidthsOf(call)) : IntegerIn(Some(WidthsOf(call)[i]), 1, 4000))
    => result.ok

====
